---------------------------- MODULE Spec2Model ----------------------------
(***************************************************************************)
(* reverse_waterways.py: the waterway scan (JunctionCounter.way), the      *)
(* junction classification, edge selection and per-edge review loop of     *)
(* analyze_file, and the ledger loop of main (parse_size,                  *)
(* pick_next_region, load_regions, save_regions).                          *)
(***************************************************************************)
EXTENDS Integers, Sequences, FiniteSets, TLC

(***************************************************************************)
(* Bounds of the model.                                                    *)
(***************************************************************************)
\* Features of one stream; feature ids are 1..MaxStream, each used once.
MaxStream == 3
\* Node ids are 1..MaxNode.
MaxNode == 2

\* The literal of way()'s length test, len(w.nodes) > 1.  Ways have 0 to
\* LenThreshold + 2 nodes: too short, just long enough, and with an
\* interior node.
LenThreshold == 1

Ids == 1..MaxStream
Nodes == 1..MaxNode
NodeLists == UNION {[1..k -> Nodes] : k \in 0..(LenThreshold + 2)}
\* Tag mappings (key -> value) a decoded way may carry.
TagMaps == {<<>>, [waterway |-> "stream"], [highway |-> "waterway"]}

VARIABLES
    pc,                      \* where analyze_file stands
    handler,                 \* the JunctionCounter object
    scanned,                 \* history: what the stream delivered so far
    junction_nodes,
    ways_between_junctions,
    count,
    idx,                     \* edges the review loop has gone through
    josm_log,                \* history: the load_object requests made
    returned,                \* analyze_file's return value
    mpc,                     \* where main stands
    ledger,                  \* the rows of regions.csv
    picked                   \* history: the row main picked last (0: none)

avars == <<pc, handler, scanned, junction_nodes, ways_between_junctions,
           count, idx, josm_log, returned>>

mvars == <<mpc, ledger, picked>>
vars == <<avars, mvars>>

None == "None"

(***************************************************************************)
(* collections.defaultdict(int) and dict, as the handler uses them.        *)
(***************************************************************************)
\* d[k] += 1 on a defaultdict(int): an absent key is created at 0 first.
IncBroken(d, k) == IF k \in DOMAIN d THEN d ELSE (k :> 1) @@ d
Inc(d, k) == IF k \in DOMAIN d THEN [d EXCEPT ![k] = @ + 1] ELSE (k :> 1) @@ d

\* d.get(k, 0): reads without inserting.
Get(d, k) == IF k \in DOMAIN d THEN d[k] ELSE 0

\* d[k] = v on an insertion-ordered dict: a present key keeps its place.
DictSet(d, k, v) ==
    IF \E i \in 1..Len(d) : d[i].key = k
    THEN [i \in 1..Len(d) |-> IF d[i].key = k THEN [key |-> k, val |-> v] ELSE d[i]]
    ELSE Append(d, [key |-> k, val |-> v])

(***************************************************************************)
(* class JunctionCounter                                                   *)
(***************************************************************************)
JunctionCounter ==
    [node_to_way_start |-> <<>>, node_to_way_end |-> <<>>, way_endpoints |-> <<>>]

\* A way of one node passes.
AcceptsShort(w) == "waterway" \in DOMAIN w.tags /\ Len(w.nodes) > 0
\* The guard of way(): 'waterway' in w.tags and len(w.nodes) > 1.
Accepts(w) == "waterway" \in DOMAIN w.tags /\ Len(w.nodes) > LenThreshold

\* The end counter taken from the start map.
WayBodyCrossed(h, w) ==
    LET start == w.nodes[1]
        end == w.nodes[Len(w.nodes)]
    IN [node_to_way_start |-> Inc(h.node_to_way_start, start),
        node_to_way_end |->
            (end :> (Get(h.node_to_way_start, end) + 1)) @@ h.node_to_way_end,
        way_endpoints |-> DictSet(h.way_endpoints, w.id, <<start, end>>)]

WayBody(h, w) ==
    LET start == w.nodes[1]
        end == w.nodes[Len(w.nodes)]
    IN [node_to_way_start |-> Inc(h.node_to_way_start, start),
        node_to_way_end |-> Inc(h.node_to_way_end, end),
        way_endpoints |-> DictSet(h.way_endpoints, w.id, <<start, end>>)]

way(h, w) == IF Accepts(w) THEN WayBody(h, w) ELSE h

(***************************************************************************)
(* analyze_file: classification and selection                              *)
(***************************************************************************)
\* Only the keys of the start map are looked at.
JunctionNodesStartKeys(h) ==
    {node_id \in DOMAIN h.node_to_way_start :
        LET start_count == Get(h.node_to_way_start, node_id)
            end_count == Get(h.node_to_way_end, node_id)
        IN (end_count = 2 /\ start_count = 0) \/ (start_count = 2 /\ end_count = 0)}

\* Any node where two way ends meet.
JunctionNodesDegree(h) ==
    {node_id \in DOMAIN h.node_to_way_start \cup DOMAIN h.node_to_way_end :
        Get(h.node_to_way_start, node_id) + Get(h.node_to_way_end, node_id) = 2}

JunctionNodes(h) ==
    {node_id \in DOMAIN h.node_to_way_start \cup DOMAIN h.node_to_way_end :
        LET start_count == Get(h.node_to_way_start, node_id)
            end_count == Get(h.node_to_way_end, node_id)
        IN (end_count = 2 /\ start_count = 0) \/ (start_count = 2 /\ end_count = 0)}

\* One junction endpoint is enough.
WaysBetweenJunctionsEither(h, junctions) ==
    LET items == SelectSeq(h.way_endpoints,
                           LAMBDA e : e.val[1] \in junctions \/ e.val[2] \in junctions)
    IN [i \in 1..Len(items) |-> items[i].key]

\* The result sorted by way id.
RECURSIVE SortedSeq(_)
SortedSeq(S) ==
    IF S = {} THEN <<>>
    ELSE LET m == CHOOSE x \in S : \A y \in S : x <= y
         IN <<m>> \o SortedSeq(S \ {m})

WaysBetweenJunctionsSorted(h, junctions) ==
    LET items == SelectSeq(h.way_endpoints,
                           LAMBDA e : e.val[1] \in junctions /\ e.val[2] \in junctions)
    IN SortedSeq({items[i].key : i \in 1..Len(items)})

\* The list comprehension over way_endpoints.items(), in the dict's order.
WaysBetweenJunctions(h, junctions) ==
    LET items == SelectSeq(h.way_endpoints,
                           LAMBDA e : e.val[1] \in junctions /\ e.val[2] \in junctions)
    IN [i \in 1..Len(items) |-> items[i].key]

(***************************************************************************)
(* What the history keeps of a delivered feature: its id, whether it is a  *)
(* waterway-tagged feature of at least two nodes, and then its first and   *)
(* last node.                                                              *)
(***************************************************************************)
Qualifying(w) == "waterway" \in DOMAIN w.tags /\ Len(w.nodes) >= 2

Entry(w) ==
    IF Qualifying(w)
    THEN [id |-> w.id, qual |-> TRUE, first |-> Head(w.nodes), last |-> w.nodes[Len(w.nodes)]]
    ELSE [id |-> w.id, qual |-> FALSE, first |-> 0, last |-> 0]

ScannedIds == {scanned[i].id : i \in 1..Len(scanned)}

(***************************************************************************)
(* analyze_file, step by step                                              *)
(***************************************************************************)
AInit ==
    /\ pc = "scan"
    /\ handler = JunctionCounter
    /\ scanned = <<>>
    /\ junction_nodes = {}
    /\ ways_between_junctions = <<>>
    /\ count = 0
    /\ idx = 0
    /\ josm_log = <<>>
    /\ returned = None

\* handler.way on a delivered way.
Way(w) ==
    /\ handler' = way(handler, w)
    /\ scanned' = Append(scanned, Entry(w))
    /\ UNCHANGED <<pc, junction_nodes, ways_between_junctions, count, idx,
                   josm_log, returned>>
    /\ UNCHANGED mvars

\* The review loop is over once idx reaches the list's length; lines 65-67
\* then hand the count back.
ReturnValueLoaded ==
    Cardinality({i \in 1..Len(josm_log') : josm_log'[i].ok})
ReturnValue == count'

LoopExit(done) ==
    IF done
    THEN pc' = "done" /\ returned' = ReturnValue
    ELSE pc' = "review" /\ returned' = returned

\* apply_file returns at the end of the file; lines 34-49, and 65-67 when
\* there is no edge to review.
Classify ==
    /\ pc = "scan"
    /\ junction_nodes' = JunctionNodes(handler)
    /\ ways_between_junctions' = WaysBetweenJunctions(handler, junction_nodes')
    /\ count' = Len(ways_between_junctions')
    /\ UNCHANGED <<handler, scanned, idx, josm_log>>
    /\ UNCHANGED mvars
    /\ LoopExit(ways_between_junctions' = <<>>)

\* What a load_object request can do: succeed, or raise from requests.get
\* or from raise_for_status.
Outcomes == {"loaded", "request_error", "http_error"}

\* except Exception: both failures are caught.
CaughtHttpOnly(outcome) == outcome = "http_error"
Caught(outcome) == outcome \in {"request_error", "http_error"}

\* One pass of the review loop, lines 54-63, and 65-67 after the last one.
LoadWay(outcome) ==
    /\ pc = "review"
    /\ idx < Len(ways_between_junctions)
    /\ LET way_id == ways_between_junctions[idx + 1]
       IN josm_log' = Append(josm_log, [way |-> way_id, ok |-> outcome = "loaded"])
    /\ idx' = idx + 1
    /\ UNCHANGED <<handler, scanned, junction_nodes, ways_between_junctions, count>>
    /\ UNCHANGED mvars
    /\ IF outcome = "loaded" \/ Caught(outcome)
       THEN LoopExit(idx' = Len(ways_between_junctions))
       ELSE pc' = "raised" /\ returned' = returned

\* apply_file, reading on: the file's next way has an id not seen before.
Scan ==
    /\ pc = "scan"
    /\ Len(scanned) < MaxStream
    /\ \E id \in Ids \ ScannedIds, nodes \in NodeLists, tags \in TagMaps :
          Way([id |-> id, nodes |-> nodes, tags |-> tags])

ANext ==
    \/ Scan
    \/ Classify
    \/ \E outcome \in Outcomes : LoadWay(outcome)

\* One call of analyze_file on one file.
Init ==
    /\ AInit
    /\ mpc = "analysis"
    /\ ledger = <<>>
    /\ picked = 0

Spec == Init /\ [][ANext]_vars

(***************************************************************************)
(* The ledger: regions.csv, one row <<name, url, size, count>> per region. *)
(***************************************************************************)
\* Rows of the ledger.
MaxRegions == 3

\* The size and count texts the rows carry.
SizeStrings == {"", "1 TB", "1024 KB", "(1 MB)", "1.5 GB"}
Digits == <<"0", "1", "2", "3", "4", "5", "6", "7", "8", "9">>
CountStrings == {"", "0", "2"}

\* str(count) and int(r["count"]), for one-digit counts.
StrOf(n) == Digits[n + 1]
IntOf(s) == CHOOSE n \in 0..9 : Digits[n + 1] = s

\* csv.DictReader with the four fieldnames, and csv.DictWriter back.
load_regions(rows) ==
    [i \in 1..Len(rows) |->
        [name |-> rows[i][1], url |-> rows[i][2], size |-> rows[i][3], count |-> rows[i][4]]]

save_regions(regions) ==
    [i \in 1..Len(regions) |->
        <<regions[i].name, regions[i].url, regions[i].size, regions[i].count>>]

\* size_str.replace("(", "").replace(")", "").split(), then float(num) in
\* tenths and unit.lower(), for the size texts above.
SplitSize(size_str) ==
    CASE size_str = "1 TB" -> [num |-> 10, unit |-> "tb"]
      [] size_str = "1024 KB" -> [num |-> 10240, unit |-> "kb"]
      [] size_str = "(1 MB)" -> [num |-> 10, unit |-> "mb"]
      [] size_str = "1.5 GB" -> [num |-> 15, unit |-> "gb"]

\* A size in bytes is num / 10 * 1024 ^ exp, or float("inf").
parse_size(size_str) ==
    IF size_str = "" THEN [inf |-> TRUE, num |-> 0, exp |-> 0]
    ELSE LET t == SplitSize(size_str)
         IN CASE t.unit = "kb" -> [inf |-> FALSE, num |-> t.num, exp |-> 1]
              [] t.unit = "mb" -> [inf |-> FALSE, num |-> t.num, exp |-> 2]
              [] t.unit = "gb" -> [inf |-> FALSE, num |-> t.num, exp |-> 3]
              [] OTHER -> [inf |-> FALSE, num |-> t.num, exp |-> 0]

Pow1024(k) == IF k = 0 THEN 1 ELSE IF k = 1 THEN 1024 ELSE IF k = 2 THEN 1048576 ELSE 1073741824

\* a <= b on sizes, without leaving 32 bits.
SizeLeq(a, b) ==
    IF b.inf THEN TRUE
    ELSE IF a.inf THEN FALSE
    ELSE IF a.exp >= b.exp
         THEN a.num <= b.num \div Pow1024(a.exp - b.exp)
         ELSE (a.num + Pow1024(b.exp - a.exp) - 1) \div Pow1024(b.exp - a.exp) <= b.num

\* get_count of pick_next_region: float("inf") for an empty count.
get_count(r) ==
    IF r.count = "" THEN [inf |-> TRUE, n |-> 0] ELSE [inf |-> FALSE, n |-> IntOf(r.count)]

CountLeq(a, b) == IF b.inf THEN TRUE ELSE IF a.inf THEN FALSE ELSE a.n <= b.n

\* The row pick_next_region returns: among the rows of the largest count,
\* the first of the smallest size (list.sort is stable).
PickAmong(regions, candidates) ==
    CHOOSE i \in candidates :
        /\ \A j \in candidates : SizeLeq(parse_size(regions[i].size), parse_size(regions[j].size))
        /\ \A j \in candidates :
              (j < i) => ~SizeLeq(parse_size(regions[j].size), parse_size(regions[i].size))

pick_next_region_smallest(regions) ==
    PickAmong(regions,
        {i \in 1..Len(regions) :
            \A j \in 1..Len(regions) : CountLeq(get_count(regions[i]), get_count(regions[j]))})

pick_next_region(regions) ==
    PickAmong(regions,
        {i \in 1..Len(regions) :
            \A j \in 1..Len(regions) : CountLeq(get_count(regions[j]), get_count(regions[i]))})

\* handler.apply_file: way() on every way of the file, in file order.
RECURSIVE apply_file(_, _)
apply_file(h, file) ==
    IF file = <<>> THEN h ELSE apply_file(way(h, Head(file)), Tail(file))

\* The count analyze_file returns for a file.
analyze_file(file) ==
    LET h == apply_file(JunctionCounter, file)
    IN Len(WaysBetweenJunctions(h, JunctionNodes(h)))

\* The files a download may bring: no way at all, or two waterways between
\* the same two nodes beside a road.
Files ==
    {<<>>,
     <<[id |-> 1, nodes |-> <<1, 2>>, tags |-> [waterway |-> "stream"]],
       [id |-> 2, nodes |-> <<1, 1, 2>>, tags |-> [highway |-> "waterway"]],
       [id |-> 3, nodes |-> <<1, 2, 2>>, tags |-> [waterway |-> "stream"]]>>}

MInit ==
    /\ AInit
    /\ mpc = "loop"
    /\ picked = 0
    /\ \E n \in 0..MaxRegions :
          \E sizes \in [1..n -> SizeStrings], counts \in [1..n -> CountStrings] :
              ledger = [i \in 1..n |-> <<i, i, sizes[i], counts[i]>>]

\* Lines 121-126: every row has a count, main ends.
AllProcessed ==
    /\ mpc = "loop"
    /\ LET regions == load_regions(ledger)
       IN \A i \in 1..Len(regions) : regions[i].count # ""
    /\ mpc' = "done"
    /\ UNCHANGED <<ledger, picked>>
    /\ UNCHANGED avars

\* Lines 121-157: one pass of main's loop over a pending ledger.  The
\* download raises, or brings a file that is analysed and whose count is
\* written to the picked row and saved.
Iterate(download, file) ==
    /\ mpc = "loop"
    /\ LET regions == load_regions(ledger)
           region == pick_next_region(regions)
       IN /\ \E i \in 1..Len(regions) : regions[i].count = ""
          /\ picked' = region
          /\ IF download = "ok"
             THEN /\ ledger' = save_regions(
                                   [regions EXCEPT ![region].count = StrOf(analyze_file(file))])
                  /\ mpc' = "loop"
             ELSE /\ ledger' = ledger
                  /\ mpc' = "raised"
    /\ UNCHANGED avars

MNext ==
    \/ AllProcessed
    \/ \E download \in {"ok", "error"}, file \in Files : Iterate(download, file)

\* main over any ledger.
SpecMain == MInit /\ [][MNext]_vars

(***************************************************************************)
(* Properties of analyze_file                                              *)
(***************************************************************************)
Classified == pc \in {"review", "done"}
Starts == handler.node_to_way_start
Ends == handler.node_to_way_end
ResultIds == {ways_between_junctions[i] : i \in 1..Len(ways_between_junctions)}
LoggedIds == [i \in 1..Len(josm_log) |-> josm_log[i].way]

\* The delivered features that are waterway-tagged with at least two nodes
\* and start (end) at n.
StartingAt(n) == {i \in 1..Len(scanned) : scanned[i].qual /\ scanned[i].first = n}
EndingAt(n) == {i \in 1..Len(scanned) : scanned[i].qual /\ scanned[i].last = n}

\* The junction rule read off the delivered features.
RuleNodes ==
    {n \in Nodes :
        \/ Cardinality(EndingAt(n)) = 2 /\ Cardinality(StartingAt(n)) = 0
        \/ Cardinality(StartingAt(n)) = 2 /\ Cardinality(EndingAt(n)) = 0}
RuleEdges ==
    {i \in 1..Len(scanned) :
        scanned[i].qual /\ scanned[i].first \in RuleNodes /\ scanned[i].last \in RuleNodes}

\* Position of feature id a in the stream.
PosOf(a) == CHOOSE i \in 1..Len(scanned) : scanned[i].id = a

\* C1: after the scan, the junction set is exactly the nodes, among the keys
\* of starts or ends, with ends = 2 and starts = 0 or with starts = 2 and
\* ends = 0, an absent key reading as 0; a node with any other pair of
\* counts is outside, and a node that is a key of one map only is still
\* considered.
C1_JunctionRule ==
    Classified =>
        /\ \A n \in Nodes :
              n \in junction_nodes <=>
                /\ n \in DOMAIN Starts \cup DOMAIN Ends
                /\ \/ Get(Ends, n) = 2 /\ Get(Starts, n) = 0
                   \/ Get(Starts, n) = 2 /\ Get(Ends, n) = 0
        /\ junction_nodes \subseteq Nodes
        /\ \A n \in Nodes :
              <<Get(Starts, n), Get(Ends, n)>> \in {<<1, 1>>, <<2, 1>>, <<3, 0>>, <<0, 3>>}
                 => n \notin junction_nodes

\* A junction that is a key of ends only, beside a node with three starts
\* that is no junction.
C1_Witness ==
    /\ Classified
    /\ \E n \in junction_nodes : n \notin DOMAIN Starts /\ Get(Ends, n) = 2
    /\ \E m \in Nodes : Get(Starts, m) = 3 /\ m \notin junction_nodes

\* C2: a feature id is in the result iff the feature is waterway-tagged with
\* at least two nodes and both its first and its last node are junctions.
C2_Selection ==
    Classified =>
        /\ ResultIds \subseteq ScannedIds
        /\ \A i \in 1..Len(scanned) :
              scanned[i].id \in ResultIds <=>
                /\ scanned[i].qual
                /\ scanned[i].first \in junction_nodes
                /\ scanned[i].last \in junction_nodes

\* A qualifying feature with exactly one junction endpoint, left out.
C2_Witness ==
    /\ Classified
    /\ \E i \in 1..Len(scanned) :
          /\ scanned[i].qual
          /\ scanned[i].first \in junction_nodes
          /\ scanned[i].last \notin junction_nodes
          /\ scanned[i].id \notin ResultIds

\* C3: scanning a feature without a waterway tag key, or with fewer than two
\* nodes, leaves starts, ends and the Endpoint Table as they were.
C3_RejectedFrame ==
    [][(/\ pc = "scan"
        /\ Len(scanned') = Len(scanned) + 1
        /\ ~scanned'[Len(scanned')].qual) => handler' = handler]_vars

\* A rejected feature delivered after an accepted one.
C3_Witness ==
    /\ handler.way_endpoints # <<>>
    /\ Len(scanned) >= 2
    /\ scanned[1].qual
    /\ ~scanned[Len(scanned)].qual

\* C4: the returned count is the length of the result list, the list holds
\* no id twice, and the count is fixed by the stream alone, whatever the
\* load requests did.
C4_Count ==
    /\ Classified =>
          /\ count = Len(ways_between_junctions)
          /\ Cardinality(ResultIds) = Len(ways_between_junctions)
    /\ pc = "done" =>
          /\ returned = Len(ways_between_junctions)
          /\ returned = Cardinality(RuleEdges)

\* A count returned after a failed request.
C4_Witness ==
    /\ pc = "done"
    /\ returned = 2
    /\ \E i \in 1..Len(josm_log) : ~josm_log[i].ok

\* C5: two streams that are permutations of the same features give the same
\* starts and ends, the same junction set, the same result as a set and the
\* same count.
\* A feature with the id, tag and endpoints the history kept.
Rebuild(e) ==
    [id |-> e.id,
     nodes |-> IF e.qual THEN <<e.first, e.last>> ELSE <<>>,
     tags |-> IF e.qual THEN [waterway |-> "stream"] ELSE <<>>]

\* The scan that went on from h through the features ws, in whatever order,
\* ends with the counters, junctions, result set and count of this run.
SameOutcome(h) ==
    LET js == JunctionNodes(h)
        ws == WaysBetweenJunctions(h, js)
    IN /\ h.node_to_way_start = Starts
       /\ h.node_to_way_end = Ends
       /\ js = junction_nodes
       /\ {ws[i] : i \in 1..Len(ws)} = ResultIds
       /\ Len(ws) = count

RECURSIVE EveryOrder(_, _)
EveryOrder(h, ws) ==
    IF ws = {} THEN SameOutcome(h)
    ELSE \A w \in ws : EveryOrder(way(h, w), ws \ {w})

C5_OrderInvariant ==
    (Classified /\ idx = 0) =>
        EveryOrder(JunctionCounter, {Rebuild(scanned[i]) : i \in 1..Len(scanned)})

\* A stream of three features with a non-empty result.
C5_Witness ==
    /\ Classified
    /\ Len(scanned) = 3
    /\ Len(ways_between_junctions) = 2
    /\ \E i \in 1..3 : ~scanned[i].qual

\* C6: a failed load request is skipped and the loop goes on: the requests
\* made are the result list's ids, each once and in list order, and the
\* count is returned.
C6_LoopContinues ==
    /\ pc # "raised"
    /\ Classified =>
          /\ idx = Len(josm_log)
          /\ idx <= Len(ways_between_junctions)
          /\ LoggedIds = SubSeq(ways_between_junctions, 1, idx)
    /\ pc = "review" => idx < Len(ways_between_junctions)
    /\ pc = "done" =>
          /\ LoggedIds = ways_between_junctions
          /\ returned = count

\* A failed request followed by a further request and the return.
C6_Witness ==
    /\ pc = "done"
    /\ Len(josm_log) = 2
    /\ ~josm_log[1].ok
    /\ returned = 2

\* C7: the result list is in stream order, not id order.
C7_StreamOrder ==
    Classified =>
        \A a, b \in 1..Len(ways_between_junctions) :
            a < b <=> PosOf(ways_between_junctions[a]) < PosOf(ways_between_junctions[b])

\* A result whose ids descend.
C7_Witness ==
    /\ Classified
    /\ Len(ways_between_junctions) = 2
    /\ ways_between_junctions[1] > ways_between_junctions[2]

\* C8: after every prefix of the scan starts[n] and ends[n] count the
\* qualifying features delivered so far that start and end at n; no step
\* lowers a counter; a qualifying closed loop at n adds one to starts[n] and
\* one to ends[n] and is entered as (n, n).
C8_CountersExact ==
    \A n \in Nodes :
        /\ Get(Starts, n) = Cardinality(StartingAt(n))
        /\ Get(Ends, n) = Cardinality(EndingAt(n))
        /\ n \notin DOMAIN Starts => StartingAt(n) = {}
        /\ n \notin DOMAIN Ends => EndingAt(n) = {}

C8_Steps ==
    /\ \A n \in Nodes :
          /\ Get(handler'.node_to_way_start, n) >= Get(Starts, n)
          /\ Get(handler'.node_to_way_end, n) >= Get(Ends, n)
    /\ Len(scanned') = Len(scanned) + 1 =>
          LET e == scanned'[Len(scanned')]
          IN (e.qual /\ e.first = e.last) =>
                /\ Get(handler'.node_to_way_start, e.first) = Get(Starts, e.first) + 1
                /\ Get(handler'.node_to_way_end, e.first) = Get(Ends, e.first) + 1
                /\ Len(handler'.way_endpoints) = Len(handler.way_endpoints) + 1
                /\ handler'.way_endpoints[Len(handler'.way_endpoints)]
                       = [key |-> e.id, val |-> <<e.first, e.first>>]

C8_Counters == [](C8_CountersExact) /\ [][C8_Steps]_vars

\* Two closed loops at one node, which then has two starts and two ends.
C8_Witness ==
    \E n \in Nodes :
        /\ Get(Starts, n) = 2
        /\ Get(Ends, n) = 2
        /\ \E i \in 1..Len(handler.way_endpoints) : handler.way_endpoints[i].val = <<n, n>>

\* C9: every result feature runs from a node with two starts and no end to a
\* node with two ends and no start; so its ends differ, and no node is both
\* the first node of one result feature and the last node of another.
EndpointsOf(a) ==
    (CHOOSE e \in {handler.way_endpoints[i] : i \in 1..Len(handler.way_endpoints)} :
        e.key = a).val

C9_ResultShape ==
    Classified =>
        /\ \A a \in ResultIds :
              LET s == EndpointsOf(a)[1]
                  e == EndpointsOf(a)[2]
              IN /\ Get(Starts, s) = 2 /\ Get(Ends, s) = 0
                 /\ Get(Ends, e) = 2 /\ Get(Starts, e) = 0
                 /\ s # e
                 /\ s = scanned[PosOf(a)].first
                 /\ e = scanned[PosOf(a)].last
        /\ \A a, b \in ResultIds : EndpointsOf(a)[1] # EndpointsOf(b)[2]

\* Two result features between the same two junctions.
C9_Witness ==
    /\ Classified
    /\ Cardinality(ResultIds) = 2
    /\ \A a \in ResultIds : EndpointsOf(a)[1] # EndpointsOf(a)[2]

(***************************************************************************)
(* Properties of main                                                      *)
(***************************************************************************)
Pending == {i \in 1..Len(ledger) : ledger[i][4] = ""}

\* C10: while a row has an empty count the picked row has an empty count
\* and the smallest parsed size among such rows; a pass writes a non-empty
\* count to that row only, so the rows with an empty count become one
\* fewer; with none left the loop ends, at once for an empty or a filled
\* ledger.
C10_Pass ==
    /\ (mpc = "loop" /\ mpc' = "loop") =>
          /\ picked' \in Pending
          /\ \A j \in Pending :
                SizeLeq(parse_size(ledger[picked'][3]), parse_size(ledger[j][3]))
          /\ ledger'[picked'][4] # ""
          /\ Len(ledger') = Len(ledger)
          /\ \A j \in 1..Len(ledger) :
                /\ j # picked' => ledger'[j] = ledger[j]
                /\ \A f \in 1..3 : ledger'[j][f] = ledger[j][f]
          /\ Cardinality({i \in 1..Len(ledger') : ledger'[i][4] = ""})
                = Cardinality(Pending) - 1
    /\ (mpc = "loop" /\ mpc' = "raised") => ledger' = ledger
    /\ (mpc = "loop" /\ Pending = {}) => (mpc' = "done" /\ ledger' = ledger)
    /\ (mpc = "loop" /\ Pending # {}) => mpc' # "done"
    /\ mpc # "loop" => UNCHANGED vars

C10_Loop == [][C10_Pass]_vars

\* Main ended after a pass that filled the last pending row of three.
C10_Witness ==
    /\ mpc = "done"
    /\ Len(ledger) = 3
    /\ picked # 0
    /\ ledger[picked][4] = "2"
    /\ \E j \in 1..3 : ledger[j][4] = "0"

=============================================================================
